---- MODULE Spec2Model ----
(***************************************************************************)
(* A model of the Google Ads client of this repository: customer-id        *)
(* normalisation, credential resolution, header signing and the HTTP       *)
(* executor calls, for the two client classes api_client.GoogleAdsClient   *)
(* ("api") and tools.client.GoogleAdsClient ("tools").                     *)
(*                                                                         *)
(* Strings whose characters matter (customer ids) are sequences of         *)
(* one-character strings; tokens are small integers, 0 standing for None.  *)
(***************************************************************************)
EXTENDS Integers, Sequences, FiniteSets, TLC

\* cfg   the client's settings, fixed by __init__: the class in use (impl),
\*       credentials_path, developer_token, login_customer_id, auth_type and
\*       whether GOOGLE_ADS_CLIENT_ID / _SECRET are both set (client_env)
\* file  the content of the file at credentials_path
\* cred  the client's credential cache, self._credentials
\* last  the call the client has just made: its arguments, the cache and
\*       the file before it, what it did, and what it returned or raised
\* fmt   one application of format_customer_id: input, output, done
\* tool  the tool function that has just been called on the client: its
\*       name, the results of its executor calls, and whether it returned
\*       or raised
\* gq    one rendering of run_gaql: the result rows, the format, the
\*       columns and the lines of the output
\* ctor  one construction of an api_client client: the entry point, the
\*       arguments given, the environment and the settings that result
\* race  two processes that refresh and persist to one token file: the
\*       bytes of the file and each process's position and token
\* using_mock_data  the attribute of that name of a tools.client client,
\*       set by __init__ (FALSE for an api_client client, which has none)
VARIABLES cfg, file, cred, last, fmt, tool, gq, ctor, race, using_mock_data

vars == <<cfg, file, cred, last, fmt, tool, gq, ctor, race, using_mock_data>>

(***************************************************************************)
(* Bounds of the model.                                                    *)
(***************************************************************************)
\* Longest run of arbitrary characters appended to a customer id.
MaxNoise == 3
\* Number of distinct access-token values the token endpoint hands out.
MaxTok == 2

(***************************************************************************)
(* Customer-id normalisation.                                              *)
(***************************************************************************)
\* str.zfill's width in format_customer_id.
IdWidth == 10

DigitChars == {"0", "1", "2", "3", "4", "5", "6", "7", "8", "9"}

\* str.isdigit on one character.
IsDigitChar(ch) == ch \in DigitChars

\* str.replace(ch, ''): every occurrence of ch removed.
RemoveChar(s, ch) == SelectSeq(s, LAMBDA x : x # ch)

\* ''.join(char for char in s if char.isdigit())
KeepDigits(s) == SelectSeq(s, IsDigitChar)

Zeros(n) == [i \in 1..n |-> "0"]

\* A zfill that pads on the right.
ZFillRight(s, width) ==
    IF Len(s) >= width THEN s ELSE s \o Zeros(width - Len(s))

\* str.zfill(width): a string at least width long is returned as it is; a
\* leading sign stays in front of the padding.
ZFill(s, width) ==
    IF Len(s) >= width THEN s
    ELSE IF Len(s) > 0 /\ s[1] \in {"+", "-"}
         THEN <<s[1]>> \o Zeros(width - Len(s)) \o Tail(s)
         ELSE Zeros(width - Len(s)) \o s

format_customer_id(customer_id) ==
    ZFill(KeepDigits(RemoveChar(RemoveChar(customer_id, "\""), "\"")), IdWidth)

(***************************************************************************)
(* Inputs of the normalisation: a base (empty, or eight digits) followed   *)
(* by up to MaxNoise characters of digits and noise, so that inputs with   *)
(* fewer than, exactly and more than IdWidth digits all occur.             *)
(***************************************************************************)
IdAlphabet == {"0", "1", "2", "-", "\"", " ", "a"}

IdBases == {<<>>, <<"1", "2", "3", "4", "5", "6", "7", "8">>}

NoiseStrings == UNION {[1..n -> IdAlphabet] : n \in 0..MaxNoise}

IdInputs == {b \o s : b \in IdBases, s \in NoiseStrings}

FmtIdle == [in |-> <<>>, out |-> <<>>, done |-> FALSE]

(***************************************************************************)
(* Configuration, credentials, the credentials file.                       *)
(***************************************************************************)
Impls == {"api", "tools"}

\* credentials_path: not configured, a bare file name, a file in a directory.
Paths == {"", "token.json", "conf/token.json"}

\* os.path.dirname
Dirname(p) ==
    CASE p = "conf/token.json" -> "conf"
      [] p = "demo/token.json" -> "demo"
      [] OTHER -> ""

DevTokens == {"", "dev-token"}

AuthTypes == {"oauth", "service_account", "Service_Account", "SERVICE_ACCOUNT"}

\* An auth type compared as it was written.
LowerIdentity(s) == s

\* str.lower on an auth type.
Lower(s) ==
    IF s \in {"Service_Account", "SERVICE_ACCOUNT"} THEN "service_account" ELSE s

IdDashed == <<"1", "2", "3", "-", "4", "5", "6", "-", "7", "8", "9", "0">>

IdShort == <<"4", "2">>

IdLong == <<"1", "2", "3", "4", "5", "6", "7", "8", "9", "0", "1">>

LoginIds == {<<>>, IdDashed}

CustomerIds == {IdShort, IdLong}

Tokens == 1..MaxTok

\* A credential object. tok = 0 is token None; kind "none" is no object.
NoCred == [kind |-> "none", tok |-> 0, expired |-> FALSE, rt |-> FALSE]

OAuthCred(t, e, r) == [kind |-> "oauth", tok |-> t, expired |-> e, rt |-> r]

\* service_account.Credentials: no token until the first refresh.
SACred == [kind |-> "sa", tok |-> 0, expired |-> FALSE, rt |-> FALSE]

\* Credentials.valid: a token is held and it is not expired.
Valid(c) == c.tok # 0 /\ ~c.expired

\* The content of the file at credentials_path:
\*   absent        no file
\*   garbage       not JSON
\*   sa            a service-account key ("type": "service_account")
\*   sa_malformed  "type": "service_account" with key fields missing
\*   installed/web application client secrets under that key
\*   token         an authorized-user token
FileOf(k) == [kind |-> k, tok |-> 0, expired |-> FALSE, rt |-> FALSE]

TokenFile(t, e, r) == [kind |-> "token", tok |-> t, expired |-> e, rt |-> r]

FileContents ==
    {FileOf(k) : k \in {"absent", "garbage", "sa", "sa_malformed", "installed", "web"}}
    \cup {TokenFile(t, e, r) : t \in 0..MaxTok, e \in BOOLEAN, r \in BOOLEAN}

\* Credentials.from_authorized_user_info on a token file.
ToCred(f) == OAuthCred(f.tok, f.expired, f.rt)

\* Credentials.to_json written to the file.
ToJson(c) == TokenFile(c.tok, c.expired, c.rt)

\* What the outside world decides during one call: whether the token
\* endpoint accepts a refresh, whether the user completes the interactive
\* flow, whether the file system accepts the write.
Outcomes == [refreshOk : BOOLEAN, flowOk : BOOLEAN, writeOk : BOOLEAN]

\* The token endpoint hands out a token other than the one it replaces.
FreshTok(old) == (old % MaxTok) + 1

\* creds.refresh(Request()) that succeeded: a new, unexpired token.
Refreshed(c) == [c EXCEPT !.tok = FreshTok(c.tok), !.expired = FALSE]

\* flow.run_local_server(port=0) that completed: a new token with a refresh
\* token; old is the credential it replaces.
FlowCred(old) == OAuthCred(FreshTok(old.tok), FALSE, TRUE)

\* The result of one credential resolution: the credential returned (NoCred
\* when it raised), the error raised ("ok" when none), the file afterwards
\* and what the resolution did on the way: saving is set when it reached
\* the step that saves the token, denied when the file system refused that
\* write, wrote when the file was written.
Res(result, c, f) ==
    [result |-> result, cred |-> c, file |-> f, path |-> "none",
     loader |-> FALSE, read |-> FALSE, flow |-> FALSE, refreshes |-> 0,
     wrote |-> FALSE, saving |-> FALSE, denied |-> FALSE]

(***************************************************************************)
(* api_client.GoogleAdsClient: credential resolution.                      *)
(***************************************************************************)
\* _get_service_account_credentials: the key file must exist and hold a
\* complete key; the credential starts without a token.
api_get_service_account_credentials(c, f) ==
    IF f.kind = "absent"
    THEN [Res("CredentialsNotFound", NoCred, f) EXCEPT !.path = "sa"]
    ELSE IF f.kind = "sa"
         THEN [Res("ok", SACred, f) EXCEPT !.path = "sa", !.read = TRUE]
         ELSE [Res("MalformedKey", NoCred, f) EXCEPT !.path = "sa", !.read = TRUE]

\* os.makedirs(os.path.dirname(token_path), exist_ok=True) followed by the
\* write: makedirs('') raises, so a bare file name is never written.
api_save_ok(c, o) == o.writeOk /\ Dirname(c.credentials_path) # ""

\* _get_oauth_credentials.
api_get_oauth_credentials(c, f, o) ==
    LET exists == f.kind # "absent"
        \* lines 108-118: client secrets, a token, or nothing usable
        client_config == f.kind \in {"installed", "web"}
        loader == f.kind \in {"sa", "sa_malformed", "token"}
        loaded == IF f.kind = "token" THEN ToCred(f) ELSE NoCred
        \* line 120
        stale == loaded = NoCred \/ ~Valid(loaded)
        \* lines 121-125
        tryRefresh == stale /\ loaded # NoCred /\ loaded.expired /\ loaded.rt
        creds1 == IF tryRefresh
                  THEN IF o.refreshOk THEN Refreshed(loaded) ELSE NoCred
                  ELSE loaded
        \* lines 127-146
        needFlow == stale /\ creds1 = NoCred
        haveConfig == client_config \/ c.client_env
        creds2 == IF needFlow THEN FlowCred(loaded) ELSE creds1
        \* lines 148-153
        saved == stale /\ api_save_ok(c, o)
        tried == [Res("ok", NoCred, f) EXCEPT
                    !.path = "oauth", !.loader = loader, !.read = exists,
                    !.refreshes = IF tryRefresh THEN 1 ELSE 0]
    IN  IF needFlow /\ ~haveConfig
        THEN [tried EXCEPT !.result = "ConfigurationError"]
        ELSE IF needFlow /\ ~o.flowOk
             THEN [tried EXCEPT !.result = "FlowError", !.flow = TRUE]
             ELSE [tried EXCEPT !.cred = creds2, !.flow = needFlow,
                                !.wrote = saved, !.saving = stale,
                                !.denied = stale /\ ~o.writeOk
                                           /\ Dirname(c.credentials_path) # "",
                                !.file = IF saved THEN ToJson(creds2) ELSE f]

\* A resolution that does not require the credentials path.
api_get_credentials_pathless(c, f, o) ==
    IF Lower(c.auth_type) = "service_account"
    THEN api_get_service_account_credentials(c, f)
    ELSE LET detected == f.kind \in {"sa", "sa_malformed"}
             sa == api_get_service_account_credentials(c, f)
         IN  IF detected /\ sa.result = "ok"
             THEN sa
             ELSE api_get_oauth_credentials(c, f, o)

\* _get_credentials: the path must be set; the service-account path is
\* taken on the override, or when the file declares the type; an error
\* raised on the auto-detected path is swallowed (lines 72-79) and the OAuth
\* path is taken instead.
api_get_credentials(c, f, o) ==
    IF c.credentials_path = ""
    THEN Res("ConfigurationError", NoCred, f)
    ELSE IF Lower(c.auth_type) = "service_account"
         THEN api_get_service_account_credentials(c, f)
         ELSE LET detected == f.kind \in {"sa", "sa_malformed"}
                  sa == api_get_service_account_credentials(c, f)
              IN  IF detected /\ sa.result = "ok"
                  THEN sa
                  ELSE api_get_oauth_credentials(c, f, o)

\* A credentials property that resolves on every access.
api_credentials_uncached(c, f, cr, o) == api_get_credentials(c, f, o)

\* The credentials property: resolved once, then the cached object.
api_credentials(c, f, cr, o) ==
    IF cr = NoCred
    THEN api_get_credentials(c, f, o)
    ELSE [Res("ok", cr, f) EXCEPT !.path = "cache"]

(***************************************************************************)
(* Header signing. A call's result is a resolution result extended with    *)
(* the credential cache afterwards and the headers returned.               *)
(***************************************************************************)
NoHeaders == [k \in {} |-> ""]

\* Headers that carry login-customer-id also when none is configured.
HeadersAlwaysLogin(c, tok) ==
    [k \in {"Authorization", "developer-token", "content-type", "login-customer-id"}
       |-> CASE k = "Authorization" -> <<"Bearer ", tok>>
             [] k = "developer-token" -> c.developer_token
             [] k = "content-type" -> "application/json"
             [] k = "login-customer-id" -> format_customer_id(c.login_customer_id)]

\* The headers dictionary: lines 176-185 of api_client.py, 147-156 of
\* tools/client.py.
Headers(c, tok) ==
    [k \in {"Authorization", "developer-token", "content-type"}
           \cup (IF c.login_customer_id # <<>> THEN {"login-customer-id"} ELSE {})
       |-> CASE k = "Authorization" -> <<"Bearer ", tok>>
             [] k = "developer-token" -> c.developer_token
             [] k = "content-type" -> "application/json"
             [] k = "login-customer-id" -> format_customer_id(c.login_customer_id)]

Signed(r, cache, headers) ==
    [result |-> r.result, cred |-> r.cred, file |-> r.file, path |-> r.path,
     loader |-> r.loader, read |-> r.read, flow |-> r.flow,
     refreshes |-> r.refreshes, wrote |-> r.wrote, saving |-> r.saving,
     denied |-> r.denied, cache |-> cache, headers |-> headers]

\* A developer-token check that never fails.
developer_token_unchecked(c) == FALSE

\* if not self.developer_token
developer_token_missing(c) == c.developer_token = ""

\* A signing policy that reuses a service-account token while it is valid.
api_sign_policy_reuse(creds) ==
    IF ~Valid(creds)
    THEN IF creds.kind = "sa" \/ (creds.expired /\ creds.rt) THEN "refresh" ELSE "invalid"
    ELSE "reuse"

\* Lines 164-174: a service-account credential is refreshed on every call;
\* an OAuth credential is refreshed when it is invalid, expired and has a
\* refresh token, is rejected when it is invalid otherwise, and is used as
\* it is when valid.
api_sign_policy(creds) ==
    IF creds.kind = "sa" THEN "refresh"
    ELSE IF ~Valid(creds)
         THEN IF creds.expired /\ creds.rt THEN "refresh" ELSE "invalid"
         ELSE "reuse"

\* A refresh while signing that also writes the token to the file.
api_sign_refresh_saved(c, r, o) ==
    IF o.refreshOk
    THEN LET n == Refreshed(r.cred)
         IN  Signed([r EXCEPT !.cred = n, !.refreshes = @ + 1, !.wrote = TRUE,
                              !.file = ToJson(n)], n, Headers(c, n.tok))
    ELSE Signed([r EXCEPT !.result = "RefreshError", !.refreshes = @ + 1],
                r.cred, NoHeaders)

\* creds.refresh(Request()) while signing: the cached object is refreshed
\* in place, or the refresh error is raised.
api_sign_refresh(c, r, o) ==
    IF o.refreshOk
    THEN LET n == Refreshed(r.cred)
         IN  Signed([r EXCEPT !.cred = n, !.refreshes = @ + 1], n, Headers(c, n.tok))
    ELSE Signed([r EXCEPT !.result = "RefreshError", !.refreshes = @ + 1],
                r.cred, NoHeaders)

\* api_client.GoogleAdsClient._get_headers
api_get_headers(c, f, cr, o) ==
    IF developer_token_missing(c)
    THEN Signed(Res("MissingDeveloperToken", NoCred, f), cr, NoHeaders)
    ELSE LET r == api_credentials(c, f, cr, o)
         IN  IF r.result # "ok"
             THEN Signed(r, cr, NoHeaders)
             ELSE CASE api_sign_policy(r.cred) = "refresh" ->
                         api_sign_refresh(c, r, o)
                    [] api_sign_policy(r.cred) = "invalid" ->
                         Signed([r EXCEPT !.result = "AuthInvalid"], r.cred, NoHeaders)
                    [] OTHER ->
                         Signed(r, r.cred, Headers(c, r.cred.tok))

(***************************************************************************)
(* tools.client.GoogleAdsClient: credential resolution and signing.        *)
(***************************************************************************)
\* _get_credentials, lines 94-139: no cached valid credential.
tools_load_credentials(c, f, o) ==
    LET exists == f.kind # "absent"
        \* lines 101-107
        client_config == f.kind = "installed"
        loader == exists /\ f.kind \notin {"garbage", "installed"}
        loaded == IF f.kind = "token" THEN ToCred(f) ELSE NoCred
        \* lines 110-112
        stale == loaded = NoCred \/ ~Valid(loaded)
        tryRefresh == stale /\ loaded # NoCred /\ loaded.expired /\ loaded.rt
        \* lines 113-132
        needFlow == stale /\ ~tryRefresh
        haveConfig == client_config \/ c.client_env
        creds == IF tryRefresh THEN Refreshed(loaded)
                 ELSE IF needFlow THEN FlowCred(loaded) ELSE loaded
        tried == [Res("ok", NoCred, f) EXCEPT
                    !.path = "oauth", !.loader = loader, !.read = exists,
                    !.refreshes = IF tryRefresh THEN 1 ELSE 0]
    IN  IF c.credentials_path = ""
        THEN Res("ConfigurationError", NoCred, f)
        ELSE IF f.kind \in {"garbage", "web", "sa", "sa_malformed"}
        THEN [tried EXCEPT !.result = "TokenLoadError"]
        ELSE IF tryRefresh /\ ~o.refreshOk
        THEN [tried EXCEPT !.result = "RefreshError"]
        ELSE IF needFlow /\ ~haveConfig
        THEN [tried EXCEPT !.result = "ConfigurationError"]
        ELSE IF needFlow /\ ~o.flowOk
        THEN [tried EXCEPT !.result = "FlowError", !.flow = TRUE]
        ELSE IF stale /\ ~o.writeOk
        THEN [tried EXCEPT !.result = "WriteError", !.flow = needFlow,
                           !.saving = TRUE, !.denied = TRUE]
        ELSE [tried EXCEPT !.cred = creds, !.flow = needFlow, !.wrote = stale,
                           !.saving = stale,
                           !.file = IF stale THEN ToJson(creds) ELSE f]

\* _get_credentials: the cached credential while it is valid, else a load;
\* the cache is set when the load returns.
tools_get_credentials(c, f, cr, o) ==
    IF cr # NoCred /\ Valid(cr)
    THEN Signed([Res("ok", cr, f) EXCEPT !.path = "cache"], cr, NoHeaders)
    ELSE LET r == tools_load_credentials(c, f, o)
         IN  Signed(r, IF r.result = "ok" THEN r.cred ELSE cr, NoHeaders)

\* tools.client.GoogleAdsClient._get_headers
tools_get_headers(c, f, cr, o) ==
    IF developer_token_missing(c)
    THEN Signed(Res("MissingDeveloperToken", NoCred, f), cr, NoHeaders)
    ELSE LET r == tools_get_credentials(c, f, cr, o)
         IN  IF r.result # "ok" THEN r
             ELSE [r EXCEPT !.headers = Headers(c, r.cred.tok)]

\* Resolution and signing of the client class in use.
resolve(c, f, cr, o) ==
    IF c.impl = "api"
    THEN LET r == api_credentials(c, f, cr, o)
         IN  Signed(r, IF r.result = "ok" THEN r.cred ELSE cr, NoHeaders)
    ELSE tools_get_credentials(c, f, cr, o)

get_headers(c, f, cr, o) ==
    IF c.impl = "api" THEN api_get_headers(c, f, cr, o)
    ELSE tools_get_headers(c, f, cr, o)

(***************************************************************************)
(* The executor calls.                                                     *)
(***************************************************************************)
Statuses == {"200", "201", "204", "403"}

Bodies == {"body-a", "body-b"}

Responses == [status : Statuses, text : Bodies]

NoResponse == [status |-> "", text |-> ""]

NoError == [type |-> "", args |-> <<>>]

\* raise Exception(f"API error: {response.text}")
ApiError(c, resp) ==
    [type |-> "Exception",
     args |-> <<IF c.impl = "api" THEN "API error: " ELSE "API Error: ", resp.text>>]

\* The error object raised for a failed resolution or signing.
RaisedFor(result) ==
    IF result = "ok" THEN NoError ELSE [type |-> result, args |-> <<>>]

\* One call of the client: what it was, the credential cache and the file
\* before it, and everything it did and returned.
Call(op, customer_id, pre, prefile, h, sent, resp, result, error, returned) ==
    [op |-> op, customer_id |-> customer_id, pre |-> pre, prefile |-> prefile,
     result |-> result, cred |-> h.cred, path |-> h.path, loader |-> h.loader,
     read |-> h.read, flow |-> h.flow, refreshes |-> h.refreshes,
     wrote |-> h.wrote, saving |-> h.saving, denied |-> h.denied,
     headers |-> h.headers,
     urlId |-> IF sent /\ op \in {"search", "mutate"}
               THEN format_customer_id(customer_id) ELSE <<>>,
     sent |-> sent, response |-> resp, error |-> error, returned |-> returned]

NoCall ==
    Call("none", <<>>, NoCred, FileOf("absent"), Signed(Res("ok", NoCred, FileOf("absent")), NoCred, NoHeaders),
         FALSE, NoResponse, "ok", NoError, "")

\* An executor that accepts every 2xx status.
execute_any_2xx(op, customer_id, c, pre, prefile, h, resp) ==
    IF h.result # "ok"
    THEN Call(op, customer_id, pre, prefile, h, FALSE, NoResponse, h.result,
              RaisedFor(h.result), "")
    ELSE IF resp.status \notin {"200", "201", "204"}
         THEN Call(op, customer_id, pre, prefile, h, TRUE, resp, "ApiError",
                   ApiError(c, resp), "")
         ELSE Call(op, customer_id, pre, prefile, h, TRUE, resp, "ok", NoError,
                   resp.text)

\* query / search / mutate / get / list_accessible_customers: sign, send,
\* raise unless the status is 200, return the body.
execute(op, customer_id, c, pre, prefile, h, resp) ==
    IF h.result # "ok"
    THEN Call(op, customer_id, pre, prefile, h, FALSE, NoResponse, h.result,
              RaisedFor(h.result), "")
    ELSE IF resp.status # "200"
         THEN Call(op, customer_id, pre, prefile, h, TRUE, resp, "ApiError",
                   ApiError(c, resp), "")
         ELSE Call(op, customer_id, pre, prefile, h, TRUE, resp, "ok", NoError,
                   resp.text)

\* The server answers only a request that was sent.
Answers(h) == IF h.result = "ok" THEN Responses ELSE {NoResponse}

(***************************************************************************)
(* The tool functions called on a client.                                  *)
(***************************************************************************)
\* No tool function has been called.
NoTool ==
    [name |-> "none", level |-> "", errors |-> <<>>, outcome |-> "",
     error |-> NoError, value |-> {}, reported |-> NoError,
     requests |-> <<>>, bodies |-> <<>>]

\* The tool functions modelled: list_accounts, update_campaign_status and
\* run_gaql call tools.client (get, mutate, search) and get_asset_performance
\* calls api_client (query) with no handler around the call; health_check
\* and get_linked_assets make their calls inside try/except Exception.
PlainTools ==
    {"list_accounts", "update_campaign_status", "run_gaql", "get_asset_performance"}

\* The client class a tool function is written for.
ToolClient(name) ==
    IF name \in {"get_asset_performance", "get_linked_assets"} THEN "api" ELSE "tools"

\* The executor call a tool function makes.
ToolOp(name) ==
    CASE name \in {"list_accounts", "health_check"} -> "get"
      [] name = "update_campaign_status" -> "mutate"
      [] OTHER -> "search"

\* The customer_id argument of an executor call.
ToolArg(op) == IF op = "get" THEN <<>> ELSE IdShort

LinkLevels == {"campaign", "ad_group", "all", "other"}

\* Every way one executor call can go on a client whose cache is cr with
\* the file f: the call, and the cache and the file after it.
ExecutorCalls(op, c, cr, f) ==
    UNION {{[call |-> execute(op, ToolArg(op), c, cr, f, h, resp),
             cache |-> h.cache, file |-> h.file] : resp \in Answers(h)} :
           h \in {get_headers(c, f, cr, o) : o \in Outcomes}}

\* A call that is not made.
Skipped(cr, f) == [call |-> NoCall, cache |-> cr, file |-> f]

\* The errors of the calls made, in order.
ErrorsOf(ks) ==
    LET made == SelectSeq(ks, LAMBDA k : k.op # "none")
    IN  [i \in DOMAIN made |-> made[i].error]

\* The bodies returned by the calls made, in order.
BodiesOf(ks) ==
    LET made == SelectSeq(ks, LAMBDA k : k.op # "none")
    IN  [i \in DOMAIN made |-> made[i].returned]

Returned(name, level, ks, value, reported) ==
    [name |-> name, level |-> level, errors |-> ErrorsOf(ks),
     outcome |-> "returned", error |-> NoError, value |-> value,
     reported |-> reported, requests |-> <<>>, bodies |-> BodiesOf(ks)]

Raised(name, level, ks, error) ==
    [name |-> name, level |-> level, errors |-> ErrorsOf(ks),
     outcome |-> "raised", error |-> error, value |-> {}, reported |-> NoError,
     requests |-> <<>>, bodies |-> BodiesOf(ks)]

\* A tool function that returns an empty result when its call raises.
tool_call_swallowed(name, k) ==
    Returned(name, "", <<k>>, IF k.error # NoError THEN {} ELSE {"result"}, NoError)

\* A tool function with no handler: the error of its call is raised to the
\* caller, else the result built from the response is returned.
tool_call(name, k) ==
    IF k.error # NoError
    THEN Raised(name, "", <<k>>, k.error)
    ELSE Returned(name, "", <<k>>, {"result"}, NoError)

\* health_check: the status 'healthy', or on any exception the status
\* 'error' with str(e).
health_check(k) ==
    IF k.error # NoError
    THEN Returned("health_check", "", <<k>>, {"error"}, k.error)
    ELSE Returned("health_check", "", <<k>>, {"healthy"}, NoError)

\* get_linked_assets: the campaign query and the ad group query, each made
\* when link_level asks for it and each inside its own try/except
\* Exception: pass; value holds the levels whose list was filled from a
\* response.
get_linked_assets(level, a, b) ==
    Returned("get_linked_assets", level, <<a, b>>,
             {l \in {"campaign"} : a.op # "none" /\ a.error = NoError}
             \cup {l \in {"ad_group"} : b.op # "none" /\ b.error = NoError},
             NoError)

\* The operation create_campaign passes to its first mutate call.
budget_operation == [kind |-> "campaignBudgetOperation", campaignBudget |-> ""]

\* The operation of its second mutate call, naming the budget.
campaign_operation(budget_resource) ==
    [kind |-> "campaignOperation", campaignBudget |-> budget_resource]

\* result['mutateOperationResponses'][0][...]['resourceName'] of a body
\* that holds it.
resource_name(body) == "resourceName of " \o body

\* Indexing a body that does not hold the resource name.
KeyError == [type |-> "KeyError", args |-> <<>>]

\* A create_campaign that calls mutate for the campaign whatever became of
\* the budget.
campaign_calls_always(a, shaped, c) ==
    ExecutorCalls("mutate", c, a.cache, a.file)

\* The second mutate call of create_campaign: made only when the first
\* returned and its body held the budget's resource name.
campaign_calls(a, shaped, c) ==
    IF a.call.error = NoError /\ shaped
    THEN ExecutorCalls("mutate", c, a.cache, a.file)
    ELSE {Skipped(a.cache, a.file)}

\* create_campaign: a is the budget call and b the campaign call (NoCall
\* when it was not made); sa and sb tell whether the body of each held the
\* resource name the function indexes.
create_campaign(a, sa, b, sb) ==
    LET budget_resource == resource_name(a.returned)
        asked == IF b.op = "none"
                 THEN <<budget_operation>>
                 ELSE <<budget_operation, campaign_operation(budget_resource)>>
        raise(e) == [Raised("create_campaign", "", <<a, b>>, e)
                        EXCEPT !.requests = asked]
    IN  IF a.error # NoError THEN raise(a.error)
        ELSE IF ~sa THEN raise(KeyError)
        ELSE IF b.error # NoError THEN raise(b.error)
        ELSE IF ~sb THEN raise(KeyError)
        ELSE [Returned("create_campaign", "", <<a, b>>,
                       {[budget_resource |-> budget_resource,
                         resource_name |-> resource_name(b.returned)]},
                       NoError)
                 EXCEPT !.requests = asked]

\* Nothing has been rendered.
GqIdle ==
    [rows |-> <<>>, format |-> "none", fields |-> <<>>, out |-> <<>>,
     returns |-> "", list |-> <<>>, done |-> FALSE]

\* No client is being constructed.
CtorIdle ==
    [entry |-> "none", args |-> <<>>, env |-> <<>>, settings |-> <<>>,
     done |-> FALSE]

\* No processes share the token file.
NoRace == [bytes |-> <<>>, procs |-> <<>>, last_writer |-> 0]

\* any(p in s.lower() for p in mock_patterns), on the strings of the model
has_mock_pattern(s) == s \in {"Test-token", "demo/token.json"}

\* tools.client.GoogleAdsClient._detect_mock_mode
detect_mock_mode(c, f) ==
    /\ c.impl = "tools"
    /\ \/ c.developer_token # "" /\ has_mock_pattern(c.developer_token)
       \/ c.credentials_path # "" /\ has_mock_pattern(c.credentials_path)
       \/ c.credentials_path # "" /\ f.kind = "absent"
       \/ c.developer_token = "" /\ c.credentials_path = ""

(***************************************************************************)
(* The state machine: one client of either class, the credentials file,    *)
(* the clock and the outside world.                                        *)
(***************************************************************************)
Configs ==
    {c \in [impl : Impls, credentials_path : Paths, developer_token : DevTokens,
            login_customer_id : LoginIds, auth_type : AuthTypes,
            client_env : BOOLEAN] :
        c.impl = "tools" => c.auth_type = "oauth"}

\* __init__: the settings are fixed, the credential cache is empty.
Init ==
    /\ cfg \in Configs
    /\ file \in FileContents
    /\ cfg.credentials_path = "" => file = FileOf("absent")
    /\ cred = NoCred
    /\ last = NoCall
    /\ fmt = FmtIdle
    /\ tool = NoTool
    /\ gq = GqIdle
    /\ ctor = CtorIdle
    /\ race = NoRace
    /\ using_mock_data = detect_mock_mode(cfg, file)

\* The effect of a call on the client and the file.
Effect(h) ==
    /\ cred' = h.cache
    /\ file' = h.file
    /\ UNCHANGED <<cfg, fmt, gq, ctor, race, using_mock_data>>

\* The client is between calls.
Idle == last.op = "none" /\ tool.name = "none"

\* self.credentials (api) / self._get_credentials() (tools)
Resolve ==
    /\ Idle
    /\ \E h \in {resolve(cfg, file, cred, o) : o \in Outcomes} :
        /\ Effect(h)
        /\ UNCHANGED tool
        /\ last' = Call("resolve", <<>>, cred, file, h, FALSE, NoResponse,
                        h.result, RaisedFor(h.result), "")

\* self._get_headers()
GetHeaders ==
    /\ Idle
    /\ \E h \in {get_headers(cfg, file, cred, o) : o \in Outcomes} :
        /\ Effect(h)
        /\ UNCHANGED tool
        /\ last' = Call("headers", <<>>, cred, file, h, FALSE, NoResponse,
                        h.result, RaisedFor(h.result), "")

Executor(op, customer_id) ==
    /\ Idle
    /\ \E h \in {get_headers(cfg, file, cred, o) : o \in Outcomes} :
        \E resp \in Answers(h) :
            /\ Effect(h)
            /\ UNCHANGED tool
            /\ last' = execute(op, customer_id, cfg, cred, file, h, resp)

\* api: query(customer_id, query); tools: search(customer_id, query)
Search == \E id \in CustomerIds : Executor("search", id)

\* tools: mutate(customer_id, operations)
Mutate == cfg.impl = "tools" /\ \E id \in CustomerIds : Executor("mutate", id)

\* get(endpoint)
Get == Executor("get", <<>>)

\* api: list_accessible_customers()
ListAccessibleCustomers == cfg.impl = "api" /\ Executor("list", <<>>)

\* The caller has seen the call's result and goes on.
Continue ==
    /\ ~Idle
    /\ last' = NoCall
    /\ tool' = NoTool
    /\ UNCHANGED <<cfg, file, cred, fmt, gq, ctor, race, using_mock_data>>

\* Time passes: the token t reaches its expiry, in the cache and in the file.
Expire ==
    /\ Idle
    /\ \E t \in Tokens :
        /\ \/ cred.tok = t /\ ~cred.expired
           \/ file.kind = "token" /\ file.tok = t /\ ~file.expired
        /\ cred' = IF cred.tok = t THEN [cred EXCEPT !.expired = TRUE] ELSE cred
        /\ file' = IF file.kind = "token" /\ file.tok = t
                   THEN [file EXCEPT !.expired = TRUE] ELSE file
        /\ UNCHANGED <<cfg, last, fmt, tool, gq, ctor, race, using_mock_data>>

\* Another program replaces, creates or removes the credentials file.
ExternalWrite ==
    /\ Idle
    /\ cfg.credentials_path # ""
    /\ file' \in FileContents \ {file}
    /\ UNCHANGED <<cfg, cred, last, fmt, tool, gq, ctor, race, using_mock_data>>

Next ==
    \/ Resolve
    \/ GetHeaders
    \/ Search
    \/ Mutate
    \/ Get
    \/ ListAccessibleCustomers
    \/ Continue
    \/ Expire
    \/ ExternalWrite

Spec == Init /\ [][Next]_vars

(***************************************************************************)
(* The normalisation on its own: an input is drawn, then formatted.        *)
(***************************************************************************)
FmtInit ==
    /\ cfg \in {c \in Configs : c.impl = "api" /\ c.credentials_path = ""
                                /\ c.developer_token = "" /\ c.login_customer_id = <<>>
                                /\ c.auth_type = "oauth" /\ ~c.client_env}
    /\ file = FileOf("absent")
    /\ cred = NoCred
    /\ last = NoCall
    /\ tool = NoTool
    /\ gq = GqIdle
    /\ ctor = CtorIdle
    /\ race = NoRace
    /\ using_mock_data = detect_mock_mode(cfg, file)
    /\ fmt \in {[in |-> s, out |-> <<>>, done |-> FALSE] : s \in IdInputs}

FormatCustomerId ==
    /\ ~fmt.done
    /\ fmt' = [fmt EXCEPT !.out = format_customer_id(fmt.in), !.done = TRUE]
    /\ UNCHANGED <<cfg, file, cred, last, tool, gq, ctor, race, using_mock_data>>

FmtNext == FormatCustomerId

FmtSpec == FmtInit /\ [][FmtNext]_vars

(***************************************************************************)
(* Properties.                                                             *)
(***************************************************************************)
\* The calls that sign headers.
SigningOps == {"headers", "search", "mutate", "get", "list"}

\* A resolution ran during the last call (neither the cache answered nor
\* an error came first).
ResolvedNow == last.op # "none" /\ last.path \in {"sa", "oauth"}

\* C1: format_customer_id returns the input's digit characters, in their
\* original order, left-padded with "0" to length 10; an input with ten or
\* more digits gets no padding.
C1_FormatIsDigitsZeroPadded ==
    fmt.done =>
        LET digits == SelectSeq(fmt.in, LAMBDA ch : ch \in DigitChars)
            pad == IF Len(digits) < 10 THEN 10 - Len(digits) ELSE 0
        IN  /\ Len(fmt.out) = pad + Len(digits)
            /\ \A i \in 1..pad : fmt.out[i] = "0"
            /\ \A i \in 1..Len(digits) : fmt.out[pad + i] = digits[i]

\* C1 witness: an input that mixes digits with a quote or a dash, has
\* fewer than ten digits and was formatted to ten characters.
C1_Witness ==
    /\ fmt.done
    /\ \E i \in DOMAIN fmt.in : fmt.in[i] \in {"\"", "-"}
    /\ \E i \in DOMAIN fmt.in : fmt.in[i] \in {"1", "2"}
    /\ Len(fmt.in) <= 3
    /\ Len(fmt.out) = 10

\* C2: the id embedded in the request path of search/query/mutate and the
\* login-customer-id header are exactly 10 characters long.
C2_NormalizedIdsAreTenLong ==
    /\ (last.sent /\ last.op \in {"search", "mutate"}) => Len(last.urlId) = 10
    /\ "login-customer-id" \in DOMAIN last.headers
          => Len(last.headers["login-customer-id"]) = 10

\* C3: when the credentials file declares "type": "service_account", a
\* resolution takes the service-account path; it neither feeds the file to
\* the OAuth token loader nor starts the interactive flow.
C3_ServiceAccountFileTakesServiceAccountPath ==
    (ResolvedNow /\ last.prefile.kind \in {"sa", "sa_malformed"})
        => (last.path = "sa" /\ ~last.loader /\ ~last.flow)

\* C4: a call made while the client holds an unexpired OAuth credential
\* returns the same access token, performs no refresh exchange, no
\* interactive flow, no read and no write of the token file and leaves the
\* cache as it was; with a valid token and a developer token it succeeds in
\* signing with that token.
C4_SecondResolutionReusesToken ==
    (last.op # "none" /\ last.pre.kind = "oauth" /\ ~last.pre.expired
       /\ (last.op \in SigningOps => cfg.developer_token # ""))
        => /\ last.cred.tok = last.pre.tok
           /\ cred = last.pre
           /\ last.refreshes = 0
           /\ ~last.flow
           /\ ~last.wrote
           /\ ~last.read
           /\ file = last.prefile
           /\ last.pre.tok # 0 =>
                 /\ last.result \in {"ok", "ApiError"}
                 /\ last.op \in SigningOps =>
                       last.headers["Authorization"] = <<"Bearer ", last.pre.tok>>

\* C4 witness: headers signed a second time with the cached, valid token.
C4_Witness ==
    /\ last.op = "headers"
    /\ last.pre.kind = "oauth"
    /\ Valid(last.pre)
    /\ last.result = "ok"
    /\ last.cred.tok = last.pre.tok

\* C5: in api_client, signing with a service-account credential performs a
\* refresh on every call and never emits the token of the call before;
\* signing with an OAuth credential performs a refresh only when the token
\* (cached, or just loaded from the file) is expired, and otherwise emits
\* the cached token.
C5_SigningRefreshPolicy ==
    (cfg.impl = "api" /\ last.op \in SigningOps) =>
        /\ last.cred.kind = "sa" =>
              /\ last.refreshes = 1
              /\ last.headers # NoHeaders =>
                    /\ last.headers["Authorization"] # <<"Bearer ", last.pre.tok>>
                    /\ last.headers["Authorization"] = <<"Bearer ", cred.tok>>
        /\ (last.cred.kind = "oauth" /\ last.refreshes > 0) =>
              IF last.pre = NoCred
              THEN last.prefile.kind = "token" /\ last.prefile.expired
              ELSE last.pre.expired
        /\ (last.pre.kind = "oauth" /\ ~last.pre.expired) =>
              /\ last.refreshes = 0
              /\ last.headers # NoHeaders =>
                    last.headers["Authorization"] = <<"Bearer ", last.pre.tok>>

\* C5 witness: a service-account client that already holds an unexpired
\* token signs again and emits another token.
C5_Witness ==
    /\ cfg.impl = "api"
    /\ last.op \in SigningOps
    /\ last.pre.kind = "sa"
    /\ Valid(last.pre)
    /\ last.headers # NoHeaders
    /\ last.refreshes = 1

\* C6: the headers returned have exactly the keys Authorization,
\* developer-token and content-type, plus login-customer-id exactly when a
\* login customer id is configured; Authorization is "Bearer " and the
\* client's current token, developer-token is the configured developer
\* token, content-type is application/json. Every call that signs without
\* raising returns such headers.
C6_HeadersAreExactlyTheFour ==
    /\ (last.op \in SigningOps /\ last.result \in {"ok", "ApiError"})
          => last.headers # NoHeaders
    /\ last.headers # NoHeaders =>
          /\ DOMAIN last.headers =
                {"Authorization", "developer-token", "content-type"}
                \cup (IF cfg.login_customer_id = <<>> THEN {}
                      ELSE {"login-customer-id"})
          /\ cred.tok # 0
          /\ last.headers["Authorization"] = <<"Bearer ", cred.tok>>
          /\ last.headers["developer-token"] = cfg.developer_token
          /\ last.headers["content-type"] = "application/json"

\* C6 witness: headers signed by a client without a login customer id.
C6_Witness ==
    /\ last.op = "headers"
    /\ last.result = "ok"
    /\ cfg.login_customer_id = <<>>
    /\ DOMAIN last.headers = {"Authorization", "developer-token", "content-type"}

\* C7: without a developer token every signing call fails with the
\* missing-developer-token error before anything else happens: the file is
\* neither read nor written, no refresh and no interactive flow runs, no
\* request is sent and the credential cache is what it was.
C7_MissingDeveloperTokenFailsFirst ==
    (cfg.developer_token = "" /\ last.op \in SigningOps) =>
        /\ last.result = "MissingDeveloperToken"
        /\ ~last.read
        /\ ~last.wrote
        /\ last.refreshes = 0
        /\ ~last.flow
        /\ ~last.sent
        /\ last.path = "none"
        /\ cred = last.pre
        /\ file = last.prefile

\* C7 witness: a search without a developer token on a client whose token
\* file holds an expired, refreshable token and whose cache is unset.
C7_Witness ==
    /\ cfg.developer_token = ""
    /\ last.op = "search"
    /\ file.kind = "token" /\ file.expired /\ file.rt
    /\ cred = NoCred
    /\ last.result = "MissingDeveloperToken"

\* C8: the error raised for a response that is not 2xx carries the HTTP
\* status code and the response body text.
C8_ApiErrorCarriesStatusAndBody ==
    (last.sent /\ last.response.status \notin {"200", "201"}) =>
        /\ last.result = "ApiError"
        /\ \E i \in DOMAIN last.error.args : last.error.args[i] = last.response.status
        /\ \E i \in DOMAIN last.error.args : last.error.args[i] = last.response.text

\* C9: on the OAuth path a failed refresh of the loaded token is not
\* raised to the caller: resolution goes on to the interactive flow, or to
\* the configuration error when no client configuration is available.
C9_RefreshFailureFallsThrough ==
    (last.op = "resolve" /\ last.path = "oauth" /\ last.refreshes > 0) =>
        /\ last.result # "RefreshError"
        /\ (last.result = "ok" /\ ~last.flow) => Valid(last.cred)

\* C10: on the OAuth path a resolution that returns hands back a valid
\* credential, having run the interactive flow unless the stored token was
\* valid or was refreshed; it neither caches nor persists an invalid one.
C10_ResolutionReturnsValidCredential ==
    (last.op = "resolve" /\ last.path = "oauth" /\ last.result = "ok") =>
        /\ Valid(last.cred)
        /\ Valid(cred)
        /\ last.wrote => (file.kind = "token" /\ file.tok # 0 /\ ~file.expired)
        /\ (last.prefile.kind # "token" \/ ~Valid(ToCred(last.prefile)))
              => (last.flow \/ last.refreshes > 0)

\* The calls that send a request once the headers are signed.
ExecutorOps == {"search", "mutate", "get", "list"}

\* C11: whenever a call obtained a new OAuth token, by the interactive
\* flow or by a refresh (a refresh while signing headers included), and
\* the file system did not refuse the write, the token was written to the
\* credentials path and the file holds the client's current token.
C11_NewTokenIsPersisted ==
    (/\ last.op # "none"
     /\ last.cred.kind = "oauth"
     /\ last.flow \/ last.refreshes > 0
     /\ last.result \in {"ok", "ApiError"}
     /\ Valid(cred)
     /\ ~last.denied)
        => /\ last.wrote
           /\ file = ToJson(cred)

\* C12: a refused write of the token file after a token was obtained or
\* refreshed is not fatal: the call raises no credential error, the new
\* credential is returned and cached, and an executor call sends its
\* request.
C12_WriteFailureIsNotFatal ==
    (last.op # "none" /\ last.saving /\ last.denied) =>
        /\ last.result \in {"ok", "ApiError"}
        /\ last.cred # NoCred
        /\ cred = last.cred
        /\ last.op \in ExecutorOps => last.sent

\* A resolution was due in the last call: the call resolves or signs, the
\* developer-token check (signing only) passed, and the cache could not
\* answer.
ResolutionDue ==
    /\ last.op # "none"
    /\ last.op \in SigningOps => cfg.developer_token # ""
    /\ IF cfg.impl = "api" THEN last.pre = NoCred ELSE ~Valid(last.pre)

\* C13: a call made on the service-account path or with a service-account
\* credential never writes the file at credentials_path: no save is
\* attempted and the file's content is what it was before the call.
C13_ServiceAccountNeverWritesFile ==
    (/\ last.op # "none"
     /\ last.path = "sa" \/ last.pre.kind = "sa" \/ last.cred.kind = "sa")
        => /\ ~last.wrote
           /\ ~last.saving
           /\ file = last.prefile

\* C13 witness: an executor call signed with a cached service-account
\* credential, whose token was refreshed for the call.
C13_Witness ==
    /\ last.op \in ExecutorOps
    /\ last.pre.kind = "sa"
    /\ last.refreshes = 1
    /\ last.sent
    /\ last.prefile.kind = "sa"

\* C14: a resolution fails with the configuration error when no
\* credentials path is configured, and when the interactive flow is needed
\* (no token file, a token that is invalid and cannot be refreshed, or in
\* api_client a refresh that failed) while neither the file holds a client
\* configuration nor client id and secret are set; whenever it fails so,
\* no flow was started, nothing was written and the credential cache is
\* what it was, unset when it was unset.
C14_ConfigurationErrors ==
    /\ (ResolutionDue /\ cfg.credentials_path = "")
          => last.result = "ConfigurationError"
    /\ (/\ ResolutionDue
        /\ cfg.credentials_path # ""
        /\ Lower(cfg.auth_type) # "service_account"
        /\ ~cfg.client_env
        /\ \/ last.prefile.kind = "absent"
           \/ /\ last.prefile.kind = "token"
              /\ ~Valid(ToCred(last.prefile))
              /\ ~(last.prefile.expired /\ last.prefile.rt)
              /\ cfg.impl = "tools"
           \/ /\ cfg.impl = "api"
              /\ last.prefile.kind = "token"
              /\ last.prefile.expired /\ last.prefile.rt
              /\ last.cred = NoCred)
          => last.result = "ConfigurationError"
    /\ last.result = "ConfigurationError" =>
          /\ ~last.flow
          /\ ~last.wrote
          /\ ~last.saving
          /\ ~last.sent
          /\ file = last.prefile
          /\ cred = last.pre
          /\ last.cred = NoCred

\* C14 witness: an executor call on a client with a credentials path but
\* no token file, no client configuration and no client id and secret.
C14_Witness ==
    /\ last.op \in ExecutorOps
    /\ cfg.credentials_path # ""
    /\ last.prefile.kind = "absent"
    /\ ~cfg.client_env
    /\ last.result = "ConfigurationError"
    /\ cred = NoCred

\* C15: in api_client, with auth_type "service_account" in any letter case
\* and no file at credentials_path, a resolution fails with the
\* credentials-not-found error on the service-account path: the OAuth
\* loader is not called, no flow is started, nothing is refreshed or
\* written and no request is sent.
C15_MissingKeyFileIsNotFound ==
    (/\ cfg.impl = "api"
     /\ ResolutionDue
     /\ cfg.auth_type \in {"service_account", "Service_Account", "SERVICE_ACCOUNT"}
     /\ cfg.credentials_path # ""
     /\ last.prefile.kind = "absent")
        => /\ last.result = "CredentialsNotFound"
           /\ last.path = "sa"
           /\ ~last.loader
           /\ ~last.flow
           /\ last.refreshes = 0
           /\ ~last.wrote
           /\ ~last.sent
           /\ cred = NoCred
           /\ file = last.prefile

\* C15 witness: a resolution with auth_type "Service_Account", client id
\* and secret set and no key file.
C15_Witness ==
    /\ cfg.impl = "api"
    /\ cfg.auth_type = "Service_Account"
    /\ cfg.client_env
    /\ last.op = "resolve"
    /\ last.prefile.kind = "absent"
    /\ last.result = "CredentialsNotFound"

\* An OAuth credential that is invalid and cannot be refreshed: it has no
\* token or has expired, and is not both expired and refreshable.
Unusable(c) == c.kind = "oauth" /\ ~Valid(c) /\ ~(c.expired /\ c.rt)

\* C16: a signing call made when the OAuth credential at hand (the cached
\* one, and the one in the token file) is invalid and cannot be refreshed
\* fails with the invalid-credentials error and sends no request.
C16_InvalidCredentialsAreRejected ==
    (/\ last.op \in SigningOps
     /\ cfg.developer_token # ""
     /\ cfg.auth_type = "oauth"
     /\ last.pre = NoCred \/ Unusable(last.pre)
     /\ last.prefile.kind = "token"
     /\ Unusable(ToCred(last.prefile)))
        => /\ last.result = "AuthInvalid"
           /\ ~last.sent

(***************************************************************************)
(* The tool functions called on the client.                                *)
(***************************************************************************)
\* A tool function without a handler is called.
CallTool ==
    /\ Idle
    /\ \E name \in PlainTools :
        /\ ToolClient(name) = cfg.impl
        /\ \E x \in ExecutorCalls(ToolOp(name), cfg, cred, file) :
            /\ tool' = tool_call(name, x.call)
            /\ cred' = x.cache
            /\ file' = x.file
    /\ UNCHANGED <<cfg, last, fmt, gq, ctor, race, using_mock_data>>

HealthCheck ==
    /\ Idle
    /\ ToolClient("health_check") = cfg.impl
    /\ \E x \in ExecutorCalls(ToolOp("health_check"), cfg, cred, file) :
        /\ tool' = health_check(x.call)
        /\ cred' = x.cache
        /\ file' = x.file
    /\ UNCHANGED <<cfg, last, fmt, gq, ctor, race, using_mock_data>>

GetLinkedAssets ==
    /\ Idle
    /\ ToolClient("get_linked_assets") = cfg.impl
    /\ \E level \in LinkLevels :
        \E a \in (IF level \in {"campaign", "all"}
                  THEN ExecutorCalls("search", cfg, cred, file)
                  ELSE {Skipped(cred, file)}) :
            \E b \in (IF level \in {"ad_group", "all"}
                      THEN ExecutorCalls("search", cfg, a.cache, a.file)
                      ELSE {Skipped(a.cache, a.file)}) :
                /\ tool' = get_linked_assets(level, a.call, b.call)
                /\ cred' = b.cache
                /\ file' = b.file
    /\ UNCHANGED <<cfg, last, fmt, gq, ctor, race, using_mock_data>>

CreateCampaign ==
    /\ Idle
    /\ cfg.impl = "tools"
    /\ \E a \in ExecutorCalls("mutate", cfg, cred, file) :
        \E sa \in BOOLEAN :
            \E b \in campaign_calls(a, sa, cfg) :
                \E sb \in BOOLEAN :
                    /\ tool' = create_campaign(a.call, sa, b.call, sb)
                    /\ cred' = b.cache
                    /\ file' = b.file
    /\ UNCHANGED <<cfg, last, fmt, gq, ctor, race, using_mock_data>>

ToolNext ==
    \/ CallTool
    \/ HealthCheck
    \/ GetLinkedAssets
    \/ CreateCampaign
    \/ Continue
    \/ Expire
    \/ ExternalWrite

ToolSpec == Init /\ [][ToolNext]_vars

\* An executor call of the tool function raised.
ToolFailed == \E i \in DOMAIN tool.errors : tool.errors[i] # NoError

MaxRows == 2

\* "-" * 100
RuleWidth == 100

VStr(s) == [t |-> "str", s |-> s, xs |-> <<>>, d |-> <<>>]

VNone == [t |-> "none", s |-> <<>>, xs |-> <<>>, d |-> <<>>]

VList(xs) == [t |-> "list", s |-> <<>>, xs |-> xs, d |-> <<>>]

VDict(d) == [t |-> "dict", s |-> <<>>, xs |-> <<>>, d |-> d]

Item(k, v) == [k |-> k, v |-> v]

Max(a, b) == IF a >= b THEN a ELSE b

RECURSIVE JoinSeq(_, _)
\* sep.join(ss)
JoinSeq(ss, sep) ==
    IF ss = <<>> THEN <<>>
    ELSE IF Len(ss) = 1 THEN ss[1]
    ELSE ss[1] \o sep \o JoinSeq(Tail(ss), sep)

RECURSIVE Split(_, _)
\* s.split(ch)
Split(s, ch) ==
    IF \A i \in DOMAIN s : s[i] # ch
    THEN <<s>>
    ELSE LET i == CHOOSE j \in DOMAIN s :
                    s[j] = ch /\ \A m \in 1..(j - 1) : s[m] # ch
         IN  <<SubSeq(s, 1, i - 1)>> \o Split(SubSeq(s, i + 1, Len(s)), ch)

\* s.replace(a, b) for single characters
Replace(s, a, b) == [i \in DOMAIN s |-> IF s[i] = a THEN b ELSE s[i]]

\* A cell written without padding.
Unpadded(s, w) == s

\* f"{s:{w}}": s followed by spaces up to the width w, never cut.
Pad(s, w) == s \o [i \in 1..(w - Len(s)) |-> " "]

Quoted(s) == <<"'">> \o s \o <<"'">>

RECURSIVE Repr(_)
\* repr(v): the text of a value inside a list or a dict
Repr(v) ==
    CASE v.t = "str" -> Quoted(v.s)
      [] v.t = "none" -> <<"N", "o", "n", "e">>
      [] v.t = "list" ->
            <<"[">> \o JoinSeq([i \in DOMAIN v.xs |-> Quoted(v.xs[i])], <<",", " ">>)
                    \o <<"]">>
      [] v.t = "dict" ->
            <<"{">> \o JoinSeq([i \in DOMAIN v.d |->
                                   Quoted(v.d[i].k) \o <<":", " ">> \o Repr(v.d[i].v)],
                               <<",", " ">>)
                    \o <<"}">>

\* str(v)
StrOf(v) == IF v.t = "str" THEN v.s ELSE Repr(v)

RECURSIVE extract(_, _)
\* _extract_fields._extract(obj, prefix) for a dict obj given by its items
extract(d, prefix) ==
    IF d = <<>> THEN <<>>
    ELSE LET key == d[1].k
             value == d[1].v
             new_prefix == IF prefix # <<>> THEN prefix \o <<".">> \o key ELSE key
         IN  (IF value.t = "dict" THEN extract(value.d, new_prefix)
              ELSE <<new_prefix>>)
             \o extract(Tail(d), prefix)

\* A field discovery that stops at the top-level keys.
extract_fields_top(row) == [i \in DOMAIN row |-> row[i].k]

\* _extract_fields(row)
extract_fields(row) == extract(row, <<>>)

\* A lookup whose default is the text None.
DictGetNone(d, key) ==
    IF \E i \in DOMAIN d : d[i].k = key
    THEN d[CHOOSE i \in DOMAIN d : d[i].k = key].v
    ELSE VStr(<<"N", "o", "n", "e">>)

\* value.get(key, '')
DictGet(d, key) ==
    IF \E i \in DOMAIN d : d[i].k = key
    THEN d[CHOOSE i \in DOMAIN d : d[i].k = key].v
    ELSE VStr(<<>>)

RECURSIVE walk(_, _)
\* the loop of _get_nested_value over the keys of the path
walk(value, keys) ==
    IF keys = <<>>
    THEN IF value.t = "none" THEN VStr(<<>>) ELSE value
    ELSE IF value.t = "dict"
         THEN walk(DictGet(value.d, Head(keys)), Tail(keys))
         ELSE VStr(<<>>)

\* _get_nested_value(obj, path)
get_nested_value(row, path) == walk(VDict(row), Split(path, "."))

\* The cell of a row in a column, before any padding: csv replaces the
\* commas of str(value), the table takes str(value).
csv_cell(row, field) == Replace(StrOf(get_nested_value(row, field)), ",", ";")

table_cell(row, field) == StrOf(get_nested_value(row, field))

\* str(row.get(f, '')) of cli.print_table
print_cell(row, field) == StrOf(DictGet(row, field))

\* The cell text of the renderer in use: run_gaql's table or print_table.
cell(renderer, row, field) ==
    IF renderer = "table" THEN table_cell(row, field) ELSE print_cell(row, field)

\* A csv value written as str(value), commas kept.
csv_line_raw(row, fields) ==
    JoinSeq([i \in DOMAIN fields |-> table_cell(row, fields[i])], <<",">>)

\* ','.join(row_data)
csv_line(row, fields) ==
    JoinSeq([i \in DOMAIN fields |-> csv_cell(row, fields[i])], <<",">>)

\* run_gaql, output_format == 'csv', for a non-empty result set
render_csv(results) ==
    LET fields == extract_fields(results[1])
        csv_lines == <<JoinSeq(fields, <<",">>)>>
                     \o [i \in DOMAIN results |-> csv_line(results[i], fields)]
    IN  JoinSeq(csv_lines, <<"\n">>)

RECURSIVE MaxLen(_, _)
\* The greatest of n and the lengths of the texts of a sequence.
MaxLen(n, texts) ==
    IF texts = <<>> THEN n ELSE MaxLen(Max(n, Len(Head(texts))), Tail(texts))

\* Column widths taken from the headers alone.
header_widths(results, fields, renderer) ==
    [i \in DOMAIN fields |-> Len(fields[i])]

\* field_widths: for each column the greater of the header's length and
\* the longest cell.
field_widths(results, fields, renderer) ==
    [i \in DOMAIN fields |->
        MaxLen(Len(fields[i]), [r \in DOMAIN results |-> cell(renderer, results[r], fields[i])])]

\* The header line, the dashes under it and one line per row.
table_body(results, fields, renderer) ==
    LET widths == field_widths(results, fields, renderer)
        header == JoinSeq([i \in DOMAIN fields |-> Pad(fields[i], widths[i])],
                          <<" ", "|", " ">>)
    IN  <<header, [i \in 1..Len(header) |-> "-"]>>
        \o [r \in DOMAIN results |->
               JoinSeq([i \in DOMAIN fields |->
                           Pad(cell(renderer, results[r], fields[i]), widths[i])],
                       <<" ", "|", " ">>)]

TitleText ==
    <<"Q", "u", "e", "r", "y", " ", "R", "e", "s", "u", "l", "t", "s", " ",
      "f", "o", "r", " ", "A", "c", "c", "o", "u", "n", "t", " ">>

\* run_gaql, output_format == 'table', for a non-empty result set
render_table(results, customer_id) ==
    LET fields == extract_fields(results[1])
        lines == <<TitleText \o format_customer_id(customer_id) \o <<":">>,
                   [i \in 1..RuleWidth |-> "-"]>>
                 \o table_body(results, fields, "table")
    IN  JoinSeq(lines, <<"\n">>)

\* cli.print_table(data) with fields=None, for a non-empty data: the lines
\* printed.
print_table(data) ==
    LET fields == [i \in DOMAIN data[1] |-> data[1][i].k]
    IN  JoinSeq(table_body(data, fields, "print_table"), <<"\n">>)

(***************************************************************************)
(* One rendering of a result set.                                          *)
(***************************************************************************)
KeyId == <<"i", "d">>

KeyN == <<"n">>

KeyX == <<"x">>

\* The values under the key id: short and long text, text with a comma,
\* None, a list and a nested dict.
IdValues ==
    {VStr(<<"7">>), VStr(<<"p", ",", "q">>), VNone,
     VList(<<<<"u">>, <<"v">>>>), VDict(<<Item(KeyX, VStr(<<"7">>))>>)}

\* The values under the key n.
NValues == {VStr(<<"7">>), VDict(<<Item(KeyX, VStr(<<"p", ",", "q">>))>>)}

\* The rows: no item, one of the keys, or both in either order.
Rows ==
    {<<>>}
    \cup {<<Item(KeyId, a)>> : a \in IdValues}
    \cup {<<Item(KeyN, b)>> : b \in NValues}
    \cup {<<Item(KeyId, a), Item(KeyN, b)>> : a \in IdValues, b \in NValues}
    \cup {<<Item(KeyN, b), Item(KeyId, a)>> : a \in IdValues, b \in NValues}

ResultSets == UNION {[1..n -> Rows] : n \in 0..MaxRows}

\* output_format of run_gaql ("xml" stands for any unknown format), and
\* print_table for cli.print_table.
Formats == {"json", "csv", "table", "dict", "xml", "print_table"}

Spaces(n) == [i \in 1..n |-> " "]

DoubleQuoted(s) == <<"\"">> \o s \o <<"\"">>

RECURSIVE dumps(_, _)
\* json.dumps(v, indent=2) of a value at a nesting level: a container
\* puts each element on a line of its own, indented by two spaces a level.
dumps(v, level) ==
    LET inner == <<"\n">> \o Spaces(2 * (level + 1))
        close == <<"\n">> \o Spaces(2 * level)
    IN  CASE v.t = "str" -> DoubleQuoted(v.s)
          [] v.t = "none" -> <<"n", "u", "l", "l">>
          [] v.t = "list" ->
                IF v.xs = <<>> THEN <<"[", "]">>
                ELSE <<"[">> \o inner
                     \o JoinSeq([i \in DOMAIN v.xs |-> DoubleQuoted(v.xs[i])],
                                <<",">> \o inner)
                     \o close \o <<"]">>
          [] v.t = "dict" ->
                IF v.d = <<>> THEN <<"{", "}">>
                ELSE <<"{">> \o inner
                     \o JoinSeq([i \in DOMAIN v.d |->
                                    DoubleQuoted(v.d[i].k) \o <<":", " ">>
                                    \o dumps(v.d[i].v, level + 1)],
                                <<",">> \o inner)
                     \o close \o <<"}">>

\* json.dumps(results, indent=2) for a non-empty list of rows
render_json(results) ==
    <<"[", "\n", " ", " ">>
    \o JoinSeq([i \in DOMAIN results |-> dumps(VDict(results[i]), 1)],
               <<",", "\n", " ", " ">>)
    \o <<"\n", "]">>

\* The formats for which run_gaql returns the list of rows itself.
ReturnsList(format) == format \in {"dict", "xml"}

\* An empty text for every format.
EmptyTextBlank(format) == <<>>

\* The texts returned for an empty result set.
EmptyText(format) ==
    CASE format = "json" -> <<"[", "]">>
      [] format = "csv" -> <<>>
      [] format = "table" ->
            <<"N", "o", " ", "r", "e", "s", "u", "l", "t", "s", " ",
              "f", "o", "u", "n", "d", ".">>
      [] OTHER ->
            <<"N", "o", " ", "d", "a", "t", "a", " ", "f", "o", "u", "n", "d", ".">>

\* The text returned (printed, for print_table) for a result set.
render(results, format) ==
    IF ReturnsList(format) THEN <<>>
    ELSE IF results = <<>> THEN EmptyText(format)
    ELSE CASE format = "json" -> render_json(results)
           [] format = "csv" -> render_csv(results)
           [] format = "table" -> render_table(results, IdShort)
           [] OTHER -> print_table(results)

\* The columns of a rendering.
columns(results, format) ==
    IF results = <<>> THEN <<>>
    ELSE CASE format = "print_table" ->
                [i \in DOMAIN results[1] |-> results[1][i].k]
           [] format \in {"csv", "table"} -> extract_fields(results[1])
           [] OTHER -> <<>>

GaqlInit ==
    /\ cfg \in {c \in Configs : c.impl = "tools" /\ c.credentials_path = ""
                                /\ c.developer_token = "" /\ c.login_customer_id = <<>>
                                /\ ~c.client_env}
    /\ file = FileOf("absent")
    /\ cred = NoCred
    /\ last = NoCall
    /\ fmt = FmtIdle
    /\ tool = NoTool
    /\ ctor = CtorIdle
    /\ race = NoRace
    /\ using_mock_data = detect_mock_mode(cfg, file)
    /\ gq \in {[rows |-> rs, format |-> f, fields |-> <<>>, out |-> <<>>,
                returns |-> "", list |-> <<>>, done |-> FALSE] :
                rs \in ResultSets, f \in Formats}

\* run_gaql renders the rows of the response (print_table: the data).
Render ==
    /\ ~gq.done
    /\ gq.format # "none"
    /\ gq' = [gq EXCEPT !.fields = columns(gq.rows, gq.format),
                        !.out = render(gq.rows, gq.format),
                        !.returns = IF ReturnsList(gq.format) THEN "list" ELSE "str",
                        !.list = IF ReturnsList(gq.format) THEN gq.rows ELSE <<>>,
                        !.done = TRUE]
    /\ UNCHANGED <<cfg, file, cred, last, fmt, tool, ctor, race, using_mock_data>>

GaqlNext == Render

GaqlSpec == GaqlInit /\ [][GaqlNext]_vars

(***************************************************************************)
(* Properties of the renderings.                                           *)
(***************************************************************************)
\* The lines of the text returned.
OutLines == Split(gq.out, "\n")

\* The lines that precede the header line.
Preamble == IF gq.format = "table" THEN 2 ELSE 0

\* A non-empty result set has been rendered.
Rendered == gq.done /\ gq.rows # <<>>

Count(s, ch) == Cardinality({i \in DOMAIN s : s[i] = ch})

StripSpaces(s) == SelectSeq(s, LAMBDA ch : ch # " ")

\* The paths of a row that lead to a value, and those that lead to a
\* value that is not a dict (rows nest one level deep).
AllPaths(row) ==
    {row[i].k : i \in DOMAIN row}
    \cup UNION {{row[i].k \o <<".">> \o row[i].v.d[j].k : j \in DOMAIN row[i].v.d} :
                i \in DOMAIN row}

LeafPaths(row) ==
    {row[i].k : i \in {j \in DOMAIN row : row[j].v.t # "dict"}}
    \cup UNION {{row[i].k \o <<".">> \o row[i].v.d[j].k :
                    j \in {m \in DOMAIN row[i].v.d : row[i].v.d[m].v.t # "dict"}} :
                i \in DOMAIN row}

\* The position of the top-level key a path starts with.
TopIndex(row, path) ==
    CHOOSE i \in DOMAIN row : row[i].k = Head(Split(path, "."))

\* The cells of the data line of row r, read back from the output.
CellsOf(r) ==
    LET line == OutLines[Preamble + (IF gq.format = "csv" THEN 1 ELSE 2) + r]
    IN  Split(line, IF gq.format = "csv" THEN "," ELSE "|")

\* C18: the columns of a csv or table rendering are the paths of row 0
\* that lead to a scalar or a list, in the order of discovery, and the
\* header line names exactly these; a path that only a later row has is
\* not a column, and where a later row lacks a path of row 0 its cell is
\* empty.
C18_ColumnsComeFromRowZero ==
    (Rendered /\ gq.format \in {"csv", "table"}) =>
        LET row0 == gq.rows[1]
            header == OutLines[Preamble + 1]
        IN  /\ gq.fields = extract_fields(row0)
            /\ {gq.fields[i] : i \in DOMAIN gq.fields} = LeafPaths(row0)
            /\ Len(gq.fields) = Cardinality(LeafPaths(row0))
            /\ \A i, j \in DOMAIN gq.fields :
                  i < j => TopIndex(row0, gq.fields[i]) <= TopIndex(row0, gq.fields[j])
            /\ StripSpaces(header) =
                  JoinSeq(gq.fields, IF gq.format = "csv" THEN <<",">> ELSE <<"|">>)
            /\ \A r \in DOMAIN gq.rows :
                  /\ \A p \in LeafPaths(gq.rows[r]) \ LeafPaths(row0) :
                        \A i \in DOMAIN gq.fields : gq.fields[i] # p
                  /\ \A i \in DOMAIN gq.fields :
                        gq.fields[i] \notin AllPaths(gq.rows[r])
                            => StripSpaces(CellsOf(r)[i]) = <<>>

\* C18 witness: a csv rendering of two rows where row 0 has only id and
\* row 1 has only n.
C18_Witness ==
    /\ Rendered
    /\ gq.format = "csv"
    /\ Len(gq.rows) = 2
    /\ LeafPaths(gq.rows[1]) = {KeyId}
    /\ LeafPaths(gq.rows[2]) = {KeyN}
    /\ OutLines[3] = <<>>

\* C19: in a csv rendering of a non-empty result set with at least one
\* column there is one data line per row, every data line has exactly
\* (number of columns - 1) commas, and its cells are the texts of the
\* row's values with each comma replaced by a semicolon.
C19_CsvValuesHaveNoComma ==
    (Rendered /\ gq.format = "csv" /\ gq.fields # <<>>) =>
        /\ Len(OutLines) = Len(gq.rows) + 1
        /\ \A r \in DOMAIN gq.rows :
              LET line == OutLines[1 + r]
                  values == [i \in DOMAIN gq.fields |->
                                StrOf(get_nested_value(gq.rows[r], gq.fields[i]))]
              IN  /\ Count(line, ",") = Len(gq.fields) - 1
                  /\ Len(CellsOf(r)) = Len(gq.fields)
                  /\ \A i \in DOMAIN gq.fields :
                        /\ Len(CellsOf(r)[i]) = Len(values[i])
                        /\ \A j \in DOMAIN values[i] :
                              CellsOf(r)[i][j] = (IF values[i][j] = "," THEN ";"
                                                  ELSE values[i][j])

\* C19 witness: a csv rendering with two columns whose row holds a text
\* with a comma and a list.
C19_Witness ==
    /\ Rendered
    /\ gq.format = "csv"
    /\ Len(gq.fields) = 2
    /\ \E r \in DOMAIN gq.rows :
          /\ get_nested_value(gq.rows[r], KeyId) = VStr(<<"p", ",", "q">>)
          /\ OutLines[1 + r] = <<"p", ";", "q", ",", "7">>

\* The width a column must have: the greatest of the length of its header
\* and the lengths of its cells.
WidthOf(i) ==
    LET lens == {Len(gq.fields[i])}
                \cup {Len(cell(gq.format, gq.rows[r], gq.fields[i])) : r \in DOMAIN gq.rows}
    IN  CHOOSE w \in lens : \A l \in lens : w >= l

\* The line of a table for the texts of its cells.
TableLine(texts) ==
    JoinSeq([i \in DOMAIN texts |-> Pad(texts[i], WidthOf(i))], <<" ", "|", " ">>)

\* C20: in a table rendering (run_gaql's table, cli.print_table) each
\* column is as wide as the longest of its header and its cells, the cells
\* of a line are padded to that width and joined with " | ", the line
\* after the header is made of dashes and as long as the header line, and
\* every data line is as long as the header line.
C20_TableColumnsAreAligned ==
    (Rendered /\ gq.format \in {"table", "print_table"}) =>
        LET header == OutLines[Preamble + 1]
            dashes == OutLines[Preamble + 2]
        IN  /\ Len(OutLines) = Preamble + 2 + Len(gq.rows)
            /\ header = TableLine(gq.fields)
            /\ Len(dashes) = Len(header)
            /\ \A i \in DOMAIN dashes : dashes[i] = "-"
            /\ \A r \in DOMAIN gq.rows :
                  LET line == OutLines[Preamble + 2 + r]
                  IN  /\ Len(line) = Len(header)
                      /\ line = TableLine([i \in DOMAIN gq.fields |->
                                    cell(gq.format, gq.rows[r], gq.fields[i])])

\* C20 witness: a table with a column whose header is longer than a cell
\* and a column whose cell is longer than the header.
C20_Witness ==
    /\ Rendered
    /\ gq.format = "table"
    /\ Len(gq.rows) = 2
    /\ gq.fields = <<KeyId, KeyN>>
    /\ Len(table_cell(gq.rows[1], KeyId)) < Len(KeyId)
    /\ Len(table_cell(gq.rows[2], KeyN)) > Len(KeyN)
    /\ Len(OutLines[3]) = Len(OutLines[6])
    /\ Len(OutLines[3]) > Len(KeyId) + 3 + Len(KeyN)

\* C21: for an empty result set run_gaql returns the text "[]" for json,
\* the empty text for csv, the text "No results found." for table and the
\* empty list for dict and any other format; no column is discovered.
C21_EmptyResultSet ==
    (gq.done /\ gq.rows = <<>> /\ gq.format # "print_table") =>
        /\ gq.fields = <<>>
        /\ gq.format = "json" => gq.returns = "str" /\ gq.out = <<"[", "]">>
        /\ gq.format = "csv" => gq.returns = "str" /\ gq.out = <<>>
        /\ gq.format = "table" =>
              /\ gq.returns = "str"
              /\ gq.out = <<"N", "o", " ", "r", "e", "s", "u", "l", "t", "s", " ",
                            "f", "o", "u", "n", "d", ".">>
        /\ gq.format \in {"dict", "xml"} => gq.returns = "list" /\ gq.list = <<>>

\* C21 witness: the empty result set rendered as json.
C21_Witness ==
    /\ gq.done
    /\ gq.rows = <<>>
    /\ gq.format = "json"
    /\ gq.out = <<"[", "]">>

\* C22: on the OAuth path a file that holds application secrets under
\* "installed" or "web" is never handed to the authorized-user token
\* loader; it is the client configuration of the interactive flow, which
\* is started with it.
C22_ClientSecretsAreNotParsedAsToken ==
    (/\ last.op # "none"
     /\ last.path = "oauth"
     /\ last.prefile.kind \in {"installed", "web"})
        => /\ ~last.loader
           /\ last.result # "TokenLoadError"
           /\ last.flow

(***************************************************************************)
(* Construction of an api_client client: arguments, environment and the    *)
(* settings that result.                                                   *)
(***************************************************************************)
\* Python's None, and the mark of an argument that is not given.
None == "<None>"

Omitted == "<omitted>"

Settings == {"credentials_path", "developer_token", "login_customer_id", "auth_type"}

\* a or b
PyOr(a, b) == IF a \in {None, ""} THEN b ELSE a

\* os.environ.get(name, default); an unset variable is None in env
EnvGet(env, name, default) == IF env[name] = None THEN default ELSE env[name]

\* The arguments after the defaults of the signature are filled in.
WithDefaults(args, defaults) ==
    [k \in Settings |-> IF args[k] = Omitted THEN defaults[k] ELSE args[k]]

\* GoogleAdsClient.__init__ on its parameters
init_body(a, env) ==
    [k \in Settings |->
        CASE k = "credentials_path" -> PyOr(a[k], EnvGet(env, k, None))
          [] k = "developer_token" -> PyOr(a[k], EnvGet(env, k, None))
          [] k = "login_customer_id" -> PyOr(a[k], EnvGet(env, k, ""))
          [] k = "auth_type" -> PyOr(a[k], EnvGet(env, k, "oauth"))]

\* GoogleAdsClient(...): auth_type defaults to "oauth", the others to None
GoogleAdsClient_init(args, env) ==
    init_body(WithDefaults(args, [k \in Settings |->
                                     IF k = "auth_type" THEN "oauth" ELSE None]), env)

\* create_client(...): every parameter defaults to None; auth_type or "oauth"
\* is passed on
create_client(args, env) ==
    LET a == WithDefaults(args, [k \in Settings |-> None])
    IN  init_body([a EXCEPT !["auth_type"] = PyOr(a["auth_type"], "oauth")], env)

EntryPoints == {"GoogleAdsClient", "create_client"}

\* The arguments a caller gives, and the values the environment holds.
ArgValues(k) ==
    CASE k = "credentials_path" -> {Omitted, "token.json"}
      [] k = "developer_token" -> {Omitted, "dev-token"}
      [] k = "login_customer_id" -> {Omitted, "123-456-7890"}
      [] k = "auth_type" -> {Omitted, None, "oauth"}

EnvValues(k) ==
    CASE k = "credentials_path" -> {None, "env/key.json"}
      [] k = "developer_token" -> {None, "env-dev-token"}
      [] k = "login_customer_id" -> {None, "999-999-9999"}
      [] k = "auth_type" -> {None, "service_account"}

ArgSets == {a \in [Settings -> UNION {ArgValues(k) : k \in Settings}] :
               \A k \in Settings : a[k] \in ArgValues(k)}

EnvSets == {e \in [Settings -> UNION {EnvValues(k) : k \in Settings}] :
               \A k \in Settings : e[k] \in EnvValues(k)}

CtorInit ==
    /\ cfg \in {c \in Configs : c.impl = "api" /\ c.credentials_path = ""
                                /\ c.developer_token = "" /\ c.login_customer_id = <<>>
                                /\ c.auth_type = "oauth" /\ ~c.client_env}
    /\ file = FileOf("absent")
    /\ cred = NoCred
    /\ last = NoCall
    /\ fmt = FmtIdle
    /\ tool = NoTool
    /\ gq = GqIdle
    /\ race = NoRace
    /\ using_mock_data = FALSE
    /\ ctor \in {[entry |-> e, args |-> a, env |-> v, settings |-> <<>>,
                  done |-> FALSE] : e \in EntryPoints, a \in ArgSets, v \in EnvSets}

\* The client is constructed.
Construct ==
    /\ ctor.entry # "none"
    /\ ~ctor.done
    /\ ctor' = [ctor EXCEPT
                  !.settings = IF ctor.entry = "create_client"
                               THEN create_client(ctor.args, ctor.env)
                               ELSE GoogleAdsClient_init(ctor.args, ctor.env),
                  !.done = TRUE]
    /\ UNCHANGED <<cfg, file, cred, last, fmt, tool, gq, race, using_mock_data>>

CtorNext == Construct

CtorSpec == CtorInit /\ [][CtorNext]_vars

\* C23: each of credentials path, developer token, login customer id and
\* auth type takes the value of its environment variable when the argument
\* for it is not given; so create_client() without auth_type, with the
\* auth-type variable set to "service_account", yields a client on the
\* service-account path.
C23_SettingsComeFromEnvironment ==
    ctor.done =>
        \A k \in Settings :
            (ctor.args[k] = Omitted /\ ctor.env[k] # None)
                => ctor.settings[k] = ctor.env[k]

(***************************************************************************)
(* Two processes, each with a client of the same class, that share the     *)
(* token file. The file is a sequence of bytes; a write is the two system  *)
(* calls of open(path, 'w') (truncate) and of the flush at close (the      *)
(* bytes of creds.to_json() written from offset 0).                        *)
(***************************************************************************)
Procs == {1, 2}

\* The token stored before the processes start; it has expired and has a
\* refresh token. Process p is issued the token p.
OldTok == 3

\* The length of the serialised token: tokens differ in length.
JsonLen(t) == IF t = 1 THEN 3 ELSE 2

\* creds.to_json(): byte i of the token t
to_json(t) == [i \in 1..JsonLen(t) |-> <<t, i>>]

\* json.load of the bytes: the token they hold, 0 when they are not one
\* complete document.
json_load(bytes) ==
    IF \E t \in Procs \cup {OldTok} : bytes = to_json(t)
    THEN bytes[1][1]
    ELSE 0

\* The bytes after content is written from offset 0 over bytes.
write_at_start(bytes, content) ==
    content \o SubSeq(bytes, Len(content) + 1, Len(bytes))

ProcStart == [pc |-> "start", tok |-> 0, result |-> "", refreshed |-> FALSE,
              wrote |-> FALSE]

RaceInit ==
    /\ cfg \in {c \in Configs : c.credentials_path # "" /\ c.auth_type = "oauth"
                                /\ c.developer_token = "dev-token"
                                /\ c.login_customer_id = <<>>}
    /\ file = FileOf("absent")
    /\ cred = NoCred
    /\ last = NoCall
    /\ fmt = FmtIdle
    /\ tool = NoTool
    /\ gq = GqIdle
    /\ ctor = CtorIdle
    /\ using_mock_data = FALSE
    /\ race = [bytes |-> to_json(OldTok), procs |-> [p \in Procs |-> ProcStart],
               last_writer |-> 0]

RaceFrame == UNCHANGED <<cfg, file, cred, last, fmt, tool, gq, ctor, using_mock_data>>

\* Process p opens and parses the file: a valid token is used as it is,
\* the old token is to be refreshed; bytes that do not parse raise in
\* tools.client, and in api_client lead to the interactive flow or to the
\* configuration error.
Load(p) ==
    /\ race.procs[p].pc = "start"
    /\ LET t == json_load(race.bytes)
           me == race.procs[p]
           next ==
               CASE t \in Procs -> [me EXCEPT !.pc = "done", !.tok = t, !.result = "ok"]
                 [] t = OldTok -> [me EXCEPT !.pc = "loaded", !.tok = t]
                 [] OTHER ->
                      IF cfg.impl = "tools"
                      THEN [me EXCEPT !.pc = "done", !.result = "TokenLoadError"]
                      ELSE IF cfg.client_env
                           THEN [me EXCEPT !.pc = "acquired", !.tok = p]
                           ELSE [me EXCEPT !.pc = "done", !.result = "ConfigurationError"]
       IN  race' = [race EXCEPT !.procs[p] = next]
    /\ RaceFrame

\* creds.refresh(Request()): the server issues a new token.
Refresh(p) ==
    /\ race.procs[p].pc = "loaded"
    /\ race' = [race EXCEPT !.procs[p].pc = "acquired", !.procs[p].tok = p,
                            !.procs[p].refreshed = TRUE]
    /\ RaceFrame

\* open(path, 'w'): the file is truncated; in api_client the makedirs
\* before it raises for a bare file name and the save is given up.
Open(p) ==
    /\ race.procs[p].pc = "acquired"
    /\ IF cfg.impl = "api" /\ Dirname(cfg.credentials_path) = ""
       THEN race' = [race EXCEPT !.procs[p].pc = "done", !.procs[p].result = "ok"]
       ELSE race' = [race EXCEPT !.procs[p].pc = "opened", !.bytes = <<>>]
    /\ RaceFrame

\* f.write(creds.to_json()) and close: the bytes reach the file.
Write(p) ==
    /\ race.procs[p].pc = "opened"
    /\ race' = [race EXCEPT !.procs[p].pc = "done", !.procs[p].result = "ok",
                            !.procs[p].wrote = TRUE,
                            !.bytes = write_at_start(race.bytes, to_json(p)),
                            !.last_writer = p]
    /\ RaceFrame

RaceNext == \E p \in Procs : Load(p) \/ Refresh(p) \/ Open(p) \/ Write(p)

RaceSpec == RaceInit /\ [][RaceNext]_vars

\* C24: when two processes have both refreshed the stored token and
\* written theirs to the shared file, in whatever order their steps
\* interleaved, neither has failed, the file holds the complete token of
\* the process that wrote last, and each process holds the token it was
\* issued.
C24_LastWriterWins ==
    (\A p \in Procs : /\ race.procs # <<>>
                      /\ race.procs[p].pc = "done"
                      /\ race.procs[p].refreshed
                      /\ race.procs[p].wrote)
        => /\ \A p \in Procs : race.procs[p].result = "ok" /\ race.procs[p].tok = p
           /\ race.bytes = to_json(race.last_writer)

\* C25: an executor call that sent its request succeeds exactly when the
\* status of the response is 200, and then returns the body; with any
\* other status, 201 and 204 included, it raises the API error carrying
\* the response text and returns nothing.
C25_SuccessOnlyOn200 ==
    (last.op \in ExecutorOps /\ last.sent)
        => /\ last.result = "ok" <=> last.response.status = "200"
           /\ last.response.status = "200"
                  => last.returned = last.response.text /\ last.error = NoError
           /\ last.response.status # "200"
                  => /\ last.result = "ApiError"
                     /\ last.error.type = "Exception"
                     /\ last.error.args[2] = last.response.text
                     /\ last.returned = ""

C25_Witness ==
    /\ last.op \in ExecutorOps
    /\ last.sent
    /\ last.response.status \in {"201", "204"}
    /\ last.result = "ApiError"
    /\ last.returned = ""

\* The calls that sign headers.
HeaderOps == {"headers"} \cup ExecutorOps

\* An OAuth credential that is invalid and cannot be refreshed.
Stuck(c) == c.kind = "oauth" /\ ~Valid(c) /\ ~(c.expired /\ c.rt)

\* What no step of an api_client instance does once its cached credential
\* is stuck: the cache is left as it is and no call reads the token file,
\* refreshes or starts interactive acquisition.
CacheKept ==
    /\ cred' = cred
    /\ last'.op # "none"
           => ~last'.read /\ ~last'.flow /\ last'.refreshes = 0 /\ ~last'.wrote

\* C26 as stated: in api_client, once the cached OAuth credential is
\* invalid and not refreshable, the cache is never cleared or re-resolved,
\* and every later _get_headers call raises the invalid-credentials error.
C26_StuckCacheAlwaysRaisesInvalid ==
    [][(cfg.impl = "api" /\ Stuck(cred))
          => /\ CacheKept
             /\ last'.op \in HeaderOps => last'.result = "AuthInvalid"]_vars

\* C26: in api_client, once the cached OAuth credential is invalid and not
\* refreshable, the cache is never cleared or re-resolved, no later call
\* reloads the token file or starts interactive acquisition, and every
\* later _get_headers call raises the invalid-credentials error when a
\* developer token is configured and the missing-developer-token error when
\* none is.
C26_StuckCacheIsNeverReResolved ==
    [][(cfg.impl = "api" /\ Stuck(cred))
          => /\ CacheKept
             /\ last'.op \in HeaderOps
                    => last'.result = IF cfg.developer_token = ""
                                      THEN "MissingDeveloperToken"
                                      ELSE "AuthInvalid"]_vars

\* C26 witness: a signing call on a stuck cache raised the
\* invalid-credentials error while the file held a valid token.
C26_Witness ==
    /\ cfg.impl = "api"
    /\ last.op \in HeaderOps
    /\ Stuck(last.pre)
    /\ cred = last.pre
    /\ last.result = "AuthInvalid"
    /\ file.kind = "token"
    /\ Valid(ToCred(file))

\* C27: after a call whose interactive acquisition succeeded with the
\* client configuration of a client-secrets file at credentials_path, and
\* whose write the file system did not refuse, that file holds the
\* authorized-user token in place of the secrets; a later resolution reads
\* it as a token and starts a flow only with the client id / secret of the
\* environment.
C27_SecretsFileBecomesToken ==
    (/\ last.op # "none"
     /\ last.flow
     /\ last.result = "ok"
     /\ last.prefile.kind \in {"installed", "web"}
     /\ ~last.denied)
        => /\ file = ToJson(last.cred)
           /\ \A o \in Outcomes :
                  LET r == resolve(cfg, file, NoCred, o)
                  IN  r.loader /\ (r.flow => cfg.client_env)

(***************************************************************************)
(* The reporting functions on a tools.client instance, whose developer     *)
(* token and credentials path may hold a mock pattern.                     *)
(***************************************************************************)
ReportingTools ==
    {"get_keyword_performance", "get_search_terms_report", "get_budget_report",
     "get_conversion_report"}

MockConfigs ==
    [impl : {"tools"}, credentials_path : Paths \cup {"demo/token.json"},
     developer_token : DevTokens \cup {"Test-token"},
     login_customer_id : LoginIds, auth_type : {"oauth"}, client_env : BOOLEAN]

\* Reporting functions that call the client whatever the flag says.
reporting_calls_live(mock, c, cr, f) == ExecutorCalls("search", c, cr, f)

\* if client.using_mock_data: the rows are built from the fixture and the
\* client is not called; else client.search(customer_id, query).
reporting_calls(mock, c, cr, f) ==
    IF mock THEN {Skipped(cr, f)} ELSE ExecutorCalls("search", c, cr, f)

\* The rows a reporting function returns, or the error of its call.
report(name, k) ==
    IF k.op = "none"
    THEN Returned(name, "", <<k>>, {"fixture"}, NoError)
    ELSE tool_call(name, k)

MockInit ==
    /\ cfg \in MockConfigs
    /\ file \in FileContents
    /\ cfg.credentials_path = "" => file = FileOf("absent")
    /\ cred = NoCred
    /\ last = NoCall
    /\ fmt = FmtIdle
    /\ tool = NoTool
    /\ gq = GqIdle
    /\ ctor = CtorIdle
    /\ race = NoRace
    /\ using_mock_data = detect_mock_mode(cfg, file)

Report ==
    /\ Idle
    /\ \E name \in ReportingTools :
        \E x \in reporting_calls(using_mock_data, cfg, cred, file) :
            /\ tool' = report(name, x.call)
            /\ cred' = x.cache
            /\ file' = x.file
    /\ UNCHANGED <<cfg, last, fmt, gq, ctor, race, using_mock_data>>

MockNext ==
    \/ Report
    \/ CallTool
    \/ Continue
    \/ Expire
    \/ ExternalWrite

MockSpec == MockInit /\ [][MockNext]_vars

\* A client constructed now, with the file as it is, would not be in mock
\* mode.
LiveNow == ~detect_mock_mode(cfg, file)

\* C28: using_mock_data is true at construction when the developer token or
\* the credentials path holds a mock pattern, when the file at the path
\* does not exist, or when neither is configured; it never changes after
\* construction, and while it is
\* true a reporting function returns rows built from the fixture, makes no
\* executor call (no credential resolution, no request) and leaves the
\* credential cache and the file alone, whatever the file holds by then.
C28_MockModeIsFixedAtConstruction ==
    /\ (\/ has_mock_pattern(cfg.developer_token)
        \/ has_mock_pattern(cfg.credentials_path)
        \/ cfg.credentials_path # "" /\ file.kind = "absent"
        \/ cfg.developer_token = "" /\ cfg.credentials_path = "")
           => using_mock_data
    /\ [][/\ using_mock_data' = using_mock_data
          /\ (using_mock_data /\ tool'.name \in ReportingTools)
                 => /\ tool'.outcome = "returned"
                    /\ tool'.value = {"fixture"}
                    /\ tool'.errors = <<>>
                    /\ cred' = cred
                    /\ file' = file]_vars

\* C28 witness: a reporting function returned fixture rows on a client in
\* mock mode although a valid token file exists by now and a client
\* constructed now would be live.
C28_Witness ==
    /\ using_mock_data
    /\ tool.name \in ReportingTools
    /\ tool.value = {"fixture"}
    /\ tool.errors = <<>>
    /\ file.kind = "token"
    /\ Valid(ToCred(file))
    /\ LiveNow

\* C29: create_campaign calls mutate once or twice, the budget creation
\* first; the campaign creation is called only after the budget call
\* returned, and it names the resource of the budget's response; a failed
\* budget call is raised with no campaign call made; a failed campaign call
\* is raised with nothing called after it (the budget is not removed); the
\* function returns only after both calls returned.
C29_BudgetThenCampaign ==
    tool.name = "create_campaign" =>
        LET n == Len(tool.errors)
        IN  /\ n \in {1, 2}
            /\ Len(tool.requests) = n
            /\ tool.requests[1] = budget_operation
            /\ tool.errors[1] # NoError
                   => n = 1 /\ tool.outcome = "raised" /\ tool.error = tool.errors[1]
            /\ n = 2
                   => /\ tool.errors[1] = NoError
                      /\ tool.requests[2] =
                             campaign_operation(resource_name(tool.bodies[1]))
                      /\ tool.errors[2] # NoError
                             => tool.outcome = "raised" /\ tool.error = tool.errors[2]
            /\ tool.outcome = "returned"
                   => /\ n = 2
                      /\ tool.errors = <<NoError, NoError>>
                      /\ \A v \in tool.value :
                             v.budget_resource = resource_name(tool.bodies[1])

\* C29 witness: the budget was created and the campaign call failed.
C29_Witness ==
    /\ tool.name = "create_campaign"
    /\ Len(tool.errors) = 2
    /\ tool.errors[1] = NoError
    /\ tool.errors[2] # NoError
    /\ tool.outcome = "raised"
    /\ tool.requests[2].campaignBudget = resource_name(tool.bodies[1])

(***************************************************************************)
(* Field discovery and lookup on one row: _extract_fields, then            *)
(* _get_nested_value for each path it returned.                            *)
(***************************************************************************)
\* A key that holds a dot.
KeyDotted == <<"i", "d", ".", "x">>

\* The rows of the rendering model, and rows with a dotted key, an empty
\* mapping, None or a list inside a mapping, and a mapping three deep.
FieldRows ==
    Rows
    \cup {<<Item(KeyDotted, v)>> : v \in {VStr(<<"7">>), VList(<<<<"u">>>>)}}
    \cup {<<Item(KeyId, a), Item(KeyDotted, VStr(<<"7">>))>> : a \in IdValues}
    \cup {<<Item(KeyId, VDict(<<>>))>>}
    \cup {<<Item(KeyId, VDict(<<Item(KeyX, w)>>))>> :
            w \in {VNone, VList(<<<<"u">>>>), VDict(<<Item(KeyN, VStr(<<"7">>))>>),
                   VDict(<<Item(KeyN, VNone)>>)}}

FieldInit ==
    /\ cfg \in {c \in Configs : c.impl = "tools" /\ c.credentials_path = ""
                                /\ c.developer_token = "" /\ c.login_customer_id = <<>>
                                /\ ~c.client_env}
    /\ file = FileOf("absent")
    /\ cred = NoCred
    /\ last = NoCall
    /\ fmt = FmtIdle
    /\ tool = NoTool
    /\ \E row \in FieldRows : gq = [GqIdle EXCEPT !.rows = <<row>>]
    /\ ctor = CtorIdle
    /\ race = NoRace
    /\ using_mock_data = TRUE

\* fields = _extract_fields(row)
Discover ==
    /\ gq.format = "none"
    /\ gq' = [gq EXCEPT !.format = "fields", !.fields = extract_fields(gq.rows[1])]
    /\ UNCHANGED <<cfg, file, cred, last, fmt, tool, ctor, race, using_mock_data>>

\* _get_nested_value(row, f) for f in fields
Lookup ==
    /\ gq.format = "fields"
    /\ ~gq.done
    /\ gq' = [gq EXCEPT !.done = TRUE,
                        !.list = [i \in DOMAIN gq.fields |->
                                     get_nested_value(gq.rows[1], gq.fields[i])]]
    /\ UNCHANGED <<cfg, file, cred, last, fmt, tool, ctor, race, using_mock_data>>

FieldNext == Discover \/ Lookup

FieldSpec == FieldInit /\ [][FieldNext]_vars

RECURSIVE LeavesOf(_)
\* The leaves of a mapping: the keys that lead to each value that is not a
\* mapping, and the value.
LeavesOf(d) ==
    UNION {IF d[i].v.t = "dict"
           THEN {[keys |-> <<d[i].k>> \o l.keys, v |-> l.v] : l \in LeavesOf(d[i].v.d)}
           ELSE {[keys |-> <<d[i].k>>, v |-> d[i].v]} :
           i \in DOMAIN d}

\* The dotted path of a sequence of keys.
PathOf(keys) == JoinSeq(keys, <<".">>)

RECURSIVE KeysOf(_)
\* Every key of a mapping, at any depth.
KeysOf(d) ==
    UNION {{d[i].k} \cup (IF d[i].v.t = "dict" THEN KeysOf(d[i].v.d) ELSE {}) :
           i \in DOMAIN d}

\* No key of the row holds a dot.
NoDots(row) == \A k \in KeysOf(row) : \A i \in DOMAIN k : k[i] # "."

\* The row that was looked up, once every discovered path has been.
LookedUp == gq.format = "fields" /\ gq.done

====
